---- MODULE Spec2Model ----
(***************************************************************************)
(* Model of the webpage categorizer:                                       *)
(*   src/webpagecategorizer/categorizer.py  categorize_websites ("cw")     *)
(*   src/categorizer.py                     process_files       ("pf")     *)
(*                                                                         *)
(* A text file is modelled by what readlines() returns for it: a sequence  *)
(* of lines, each a sequence of characters, every line but possibly the    *)
(* last one ending in the terminator LF.  Appending to a file whose last   *)
(* line has no terminator continues that line (the bytes are adjacent).    *)
(* A regular expression is modelled after parsing, as a sequence of atoms: *)
(* a literal character, or ANY for an unescaped dot.                       *)
(***************************************************************************)
EXTENDS Naturals, Sequences, FiniteSets

\* ---------------------------------------------------------------- bounds

\* Most lines the input files hold initially, all files together.
MaxLines == 2
\* Number of consecutive runs of the program on the same directories.
MaxRuns == 2

\* ------------------------------------------------------------ characters

LF == "\n"
ANY == "ANY"
None == "None"

Whitespace == {" ", LF}

\* str.lower() of one character, as re.IGNORECASE folds case.
Lower(c) ==
    CASE c = "N" -> "n"
      [] c = "E" -> "e"
      [] c = "W" -> "w"
      [] c = "S" -> "s"
      [] c = "D" -> "d"
      [] c = "X" -> "x"
      [] c = "Y" -> "y"
      [] OTHER -> c

\* The lines the input and destination files are drawn from.
\* "news\n", "news" (a last line without terminator), "EDX.org\n", "x\n"
L_news == <<"n", "e", "w", "s", LF>>
L_news_eof == <<"n", "e", "w", "s">>
L_EDX == <<"E", "D", "X", ".", "o", "r", "g", LF>>
L_x == <<"x", LF>>

LineUniverse == {L_news, L_news_eof, L_EDX, L_x}

Terminated(line) == Len(line) > 0 /\ line[Len(line)] = LF

\* ------------------------------------------------------------- str.strip

RECURSIVE lstrip(_)
lstrip(s) ==
    IF s # <<>> /\ Head(s) \in Whitespace THEN lstrip(Tail(s)) ELSE s

RECURSIVE rstrip(_)
rstrip(s) ==
    IF s # <<>> /\ s[Len(s)] \in Whitespace
    THEN rstrip(SubSeq(s, 1, Len(s) - 1))
    ELSE s

strip(s) == rstrip(lstrip(s))

\* ------------------------------------------------------------- re.search

AtomMatches(atom, c) ==
    IF atom = ANY THEN c # LF ELSE Lower(atom) = Lower(c)

\* The pattern matches the text at offset i (1-based), atom by atom.
RECURSIVE MatchAt(_, _, _, _)
MatchAt(pattern, text, i, k) ==
    IF k > Len(pattern) THEN TRUE
    ELSE IF i + k - 1 > Len(text) THEN FALSE
    ELSE IF AtomMatches(pattern[k], text[i + k - 1])
         THEN MatchAt(pattern, text, i, k + 1)
         ELSE FALSE

\* re.search tries the start offsets from left to right.
RECURSIVE SearchFrom(_, _, _)
SearchFrom(pattern, text, i) ==
    IF i > Len(text) + 1 THEN FALSE
    ELSE IF MatchAt(pattern, text, i, 1) THEN TRUE
    ELSE SearchFrom(pattern, text, i + 1)

re_search(pattern, text) == SearchFrom(pattern, text, 1)

\* -------------------------------------------------- category configuration

\* JSON values, as json.load returns them: a dict keeps its insertion order.
JStr(pattern) == [type |-> "str", s |-> pattern]
JNum == [type |-> "num"]
JList(elems) == [type |-> "list", elems |-> elems]
JDict(items) == [type |-> "dict", items |-> items]
Item(key, value) == [key |-> key, value |-> value]

P_news == <<"n", "e", "w", "s">>
P_edx_org == <<"e", "d", "x", ".", "o", "r", "g">>
P_e_x == <<"e", ANY, "x">>

\* {"news": ["news"], "learn": ["edx\\.org"]}
CfgNewsLearn ==
    JDict(<<Item("news", JList(<<JStr(P_news)>>)),
            Item("learn", JList(<<JStr(P_edx_org)>>))>>)

\* {"learn": ["e.x", "news"], "news": ["news"]}: both categories match a news line.
CfgLearnFirst ==
    JDict(<<Item("learn", JList(<<JStr(P_e_x), JStr(P_news)>>)),
            Item("news", JList(<<JStr(P_news)>>))>>)

\* Malformed: ["news"], {"news": "not-a-list"}, {"news": ["news", 5]}.
CfgNotADict == JList(<<JStr(P_news)>>)
CfgNotAList == JDict(<<Item("news", JStr(P_news))>>)
CfgNotAllStr == JDict(<<Item("news", JList(<<JStr(P_news), JNum>>))>>)

ValidCfgs == {CfgNewsLearn, CfgLearnFirst}
MalformedCfgs == {CfgNotADict, CfgNotAList, CfgNotAllStr}

\* The checks of load_category_patterns: TRUE when it returns data, FALSE when
\* it raises ValueError.
RECURSIVE all_str(_, _)
all_str(elems, j) ==
    IF j > Len(elems) THEN TRUE
    ELSE IF elems[j].type # "str" THEN FALSE
    ELSE all_str(elems, j + 1)

RECURSIVE items_valid(_, _)
items_valid(items, i) ==
    IF i > Len(items) THEN TRUE
    ELSE IF items[i].value.type # "list" THEN FALSE
    ELSE IF ~all_str(items[i].value.elems, 1) THEN FALSE
    ELSE items_valid(items, i + 1)

load_category_patterns_ok(data) ==
    IF data.type # "dict" THEN FALSE ELSE items_valid(data.items, 1)

\* CATEGORY_PATTERNS of src/categorizer.py.
P_nytimes_com == <<"n", "y", "t", "i", "m", "e", "s", ".", "c", "o", "m">>
P_bbc_co_uk == <<"b", "b", "c", ".", "c", "o", ".", "u", "k">>
P_spotify_com == <<"s", "p", "o", "t", "i", "f", "y", ".", "c", "o", "m">>
P_soundcloud_com ==
    <<"s", "o", "u", "n", "d", "c", "l", "o", "u", "d", ".", "c", "o", "m">>
P_khanacademy_org ==
    <<"k", "h", "a", "n", "a", "c", "a", "d", "e", "m", "y", ".", "o", "r", "g">>
P_coursera_org == <<"c", "o", "u", "r", "s", "e", "r", "a", ".", "o", "r", "g">>

CATEGORY_PATTERNS ==
    JDict(<<Item("news", JList(<<JStr(P_news), JStr(P_nytimes_com),
                                 JStr(P_bbc_co_uk)>>)),
            Item("music", JList(<<JStr(P_spotify_com), JStr(P_soundcloud_com)>>)),
            Item("learn", JList(<<JStr(P_khanacademy_org), JStr(P_coursera_org),
                                  JStr(P_edx_org)>>))>>)

\* -------------------------------------------------------- categorize_line

\* for pattern in patterns: if re.search(pattern, line, re.IGNORECASE)
RECURSIVE any_pattern(_, _, _)
any_pattern(patterns, line, j) ==
    IF j > Len(patterns) THEN FALSE
    ELSE IF re_search(patterns[j].s, line) THEN TRUE
    ELSE any_pattern(patterns, line, j + 1)

\* A loop that does not return at the first match: the last matching
\* category wins.
RECURSIVE categorize_last(_, _, _)
categorize_last(line, items, i) ==
    IF i > Len(items) THEN None
    ELSE LET later == categorize_last(line, items, i + 1)
         IN IF later # None THEN later
            ELSE IF any_pattern(items[i].value.elems, line, 1) THEN items[i].key
            ELSE None

\* for category, patterns in patterns_by_category.items()
RECURSIVE categorize_from(_, _, _)
categorize_from(line, items, i) ==
    IF i > Len(items) THEN None
    ELSE IF any_pattern(items[i].value.elems, line, 1) THEN items[i].key
    ELSE categorize_from(line, items, i + 1)

categorize_line(line, patterns_by_category) ==
    categorize_from(line, patterns_by_category.items, 1)

pf_categorize_line(line) == categorize_from(line, CATEGORY_PATTERNS.items, 1)

\* ------------------------------------------------------------------ files

Range(seq) == {seq[i] : i \in 1..Len(seq)}

File(lines) == [exists |-> TRUE, lines |-> lines]
NoFile == [exists |-> FALSE, lines |-> <<>>]

\* Path.glob("*.txt") of the input directory, in the order the directory
\* yields the names.
InputGlob == <<"a.txt", "b.txt">>
InputNames == Range(InputGlob)

\* Path.glob("*.txt") of the output directory; <category>.txt is named by its
\* category.
OutputGlob == <<"learn", "music", "news">>
OutputNames == Range(OutputGlob)

\* f.write(text) on a file opened in mode 'a': the text follows the last byte,
\* so it continues a last line that has no terminator.
write_append(lines, text) ==
    IF text = <<>> THEN lines
    ELSE IF lines # <<>> /\ ~Terminated(lines[Len(lines)])
         THEN [lines EXCEPT ![Len(lines)] = @ \o text]
         ELSE Append(lines, text)

\* f.writelines(new_lines) on a file opened in mode 'w'.
RECURSIVE writelines_from(_, _, _)
writelines_from(written, new_lines, i) ==
    IF i > Len(new_lines) THEN written
    ELSE writelines_from(write_append(written, new_lines[i]), new_lines, i + 1)

writelines(new_lines) == writelines_from(<<>>, new_lines, 1)

\* ------------------------------------------------------------------ state

VARIABLES
    prog,                \* "cw": categorize_websites, "pf": process_files
    yes,                 \* --yes
    remove_moved_lines,  \* --remove-moved-lines
    categories_file,     \* the JSON value stored in --categories-file
    inFiles,             \* input directory: name -> file
    outDir,              \* the output directory exists
    outFiles,            \* output directory: category -> <category>.txt
    pc,                  \* position in the program
    run,                 \* number of the current run
    category_patterns,   \* result of load_category_patterns
    LINKS_BY_CATEGORY,   \* module-level cache of destination line sets
    fileIdx,             \* position of the loop over glob("*.txt")
    lineIdx,             \* process_files: position of the loop over lines
    lines,               \* process_files: lines read from the current file
    new_lines,           \* process_files: lines kept for the rewrite
    categorized_lines,   \* removal phase: trimmed lines of all category files
    actions,             \* LinkActions._actions
    todo,                \* perform_actions: actions not yet performed
    presented,           \* rows printed by print_actions / process_files
    declined,            \* history: copy proposals that were declined this run
    moved,               \* history: lines appended to category files this run
    run_start,           \* history: the directories when the current run began
    first_in             \* history: the input files before the first run

vars ==
    <<prog, yes, remove_moved_lines, categories_file, inFiles, outDir, outFiles,
      pc, run, category_patterns, LINKS_BY_CATEGORY, fileIdx, lineIdx, lines,
      new_lines, categorized_lines, actions, todo, presented, declined,
      moved, run_start, first_in>>

\* What the command line and the flags fix for every run.
args == <<prog, yes, remove_moved_lines, categories_file>>
\* The locals of process_files.
pf_locals == <<lineIdx, lines, new_lines>>
history == <<declined, moved, run_start, first_in>>

NotCached == [cached |-> FALSE, links |-> {}]
EmptyCache == [c \in OutputNames |-> NotCached]
NoPatterns == JDict(<<>>)

\* ---------------------------------------------------------- initial states

\* Line sequences of at most n lines over a set of lines: only the last line
\* of a file can lack its terminator.
WellFormed(ls) == \A i \in 1..Len(ls) - 1 : Terminated(ls[i])

RECURSIVE SeqsUpTo(_, _)
SeqsUpTo(S, n) ==
    IF n = 0 THEN {<<>>}
    ELSE LET shorter == SeqsUpTo(S, n - 1)
         IN shorter \cup {Append(q, x) : q \in shorter, x \in S}

FileContents(S, n) == {ls \in SeqsUpTo(S, n) : WellFormed(ls)}

NoDuplicates(ls) == \A i, j \in 1..Len(ls) : ls[i] = ls[j] => i = j

\* Input directories: at most MaxLines lines over all files together.
RECURSIVE TotalLines(_, _)
TotalLines(files, i) ==
    IF i > Len(InputGlob) THEN 0
    ELSE Len(files[InputGlob[i]].lines) + TotalLines(files, i + 1)

InputDirs ==
    {files \in [InputNames -> {File(ls) : ls \in FileContents(LineUniverse, MaxLines)}] :
        TotalLines(files, 1) <= MaxLines}

\* Output directories left by earlier runs: news.txt and learn.txt missing or
\* holding one line.
OutLineUniverse == {L_news, L_news_eof}

OutContents == {NoFile} \cup {File(<<line>>) : line \in OutLineUniverse}

OutputDirs ==
    {files \in [OutputNames -> OutContents] : ~files["music"].exists}

\* The state of a process that has just started.
Started ==
    /\ pc = "start"
    /\ run = 1
    /\ category_patterns = NoPatterns
    /\ LINKS_BY_CATEGORY = EmptyCache
    /\ fileIdx = 1
    /\ lineIdx = 1
    /\ lines = <<>>
    /\ new_lines = <<>>
    /\ categorized_lines = {}
    /\ actions = <<>>
    /\ todo = <<>>
    /\ presented = {}
    /\ declined = {}
    /\ moved = {}
    /\ run_start = [inFiles |-> inFiles, outDir |-> outDir, outFiles |-> outFiles]
    /\ first_in = inFiles

Init ==
    /\ prog \in {"cw", "pf"}
    /\ yes \in (IF prog = "cw" THEN BOOLEAN ELSE {FALSE})
    /\ remove_moved_lines \in (IF prog = "cw" THEN BOOLEAN ELSE {FALSE})
    /\ categories_file \in
         (IF prog = "cw" THEN ValidCfgs \cup MalformedCfgs ELSE {NoPatterns})
    /\ inFiles \in InputDirs
    /\ outDir \in BOOLEAN
    /\ outFiles \in
         (IF outDir THEN OutputDirs ELSE {[c \in OutputNames |-> NoFile]})
    /\ Started

\* ---------------------------------------------------------------- actions

LinkCopyAction(category, src_file_name, line_number, link, target_file) ==
    [kind |-> "copy", category |-> category, src_file_name |-> src_file_name,
     line_number |-> line_number, link |-> link, target_file |-> target_file]

RemoveLinksFromFileAction(category, category_file, src_file_name, line_number, links) ==
    [kind |-> "remove", category |-> category, category_file |-> category_file,
     src_file_name |-> src_file_name, line_number |-> line_number,
     links |-> links]

\* get_links_from_file: the set it returns, and the cache it leaves.
get_links_from_file(cache, category) ==
    IF cache[category].cached THEN cache[category].links
    ELSE IF ~outFiles[category].exists THEN {}
    ELSE Range(outFiles[category].lines)

cache_after_get_links(cache, category) ==
    IF cache[category].cached THEN cache
    ELSE IF ~outFiles[category].exists THEN cache
    ELSE [cache EXCEPT ![category] =
            [cached |-> TRUE, links |-> Range(outFiles[category].lines)]]

\* Step 1 of categorize_websites for one file: for idx, line in
\* enumerate(lines, 1).  Returns the actions and the cache after the loop.
RECURSIVE scan_lines(_, _, _, _, _)
scan_lines(file, ls, idx, acts, cache) ==
    IF idx > Len(ls) THEN [actions |-> acts, cache |-> cache]
    ELSE LET line == ls[idx]
             category == categorize_line(line, category_patterns)
         IN IF category = None
            THEN scan_lines(file, ls, idx + 1, acts, cache)
            ELSE LET links == get_links_from_file(cache, category)
                 IN scan_lines(file, ls, idx + 1,
                       IF line \notin links
                       THEN Append(acts,
                              LinkCopyAction(category, file, idx, line, category))
                       ELSE acts,
                       cache_after_get_links(cache, category))

\* LinkActions._get_actions_by_category: the keys in order of first
\* appearance, each with its actions in order of insertion.
RECURSIVE category_keys(_, _, _)
category_keys(acts, i, keys) ==
    IF i > Len(acts) THEN keys
    ELSE category_keys(acts, i + 1,
            IF acts[i].category \in Range(keys)
            THEN keys
            ELSE Append(keys, acts[i].category))

actions_of(acts, category) ==
    SelectSeq(acts, LAMBDA a : a.category = category)

\* The order in which print_actions and perform_actions visit the actions.
RECURSIVE by_category_from(_, _, _)
by_category_from(acts, keys, k) ==
    IF k > Len(keys) THEN <<>>
    ELSE actions_of(acts, keys[k]) \o by_category_from(acts, keys, k + 1)

actions_by_category(acts) ==
    by_category_from(acts, category_keys(acts, 1, <<>>), 1)

\* LinkCopyAction.describe
describe_copy(a) ==
    [src |-> a.src_file_name, line_number |-> a.line_number,
     text |-> strip(a.link), dest |-> a.target_file, removed |-> FALSE]

\* RemoveLinksFromFileAction.describe: one row per link.
describe_remove(a) ==
    {[src |-> a.src_file_name, line_number |-> a.line_number,
      text |-> strip(link), dest |-> a.category_file, removed |-> TRUE] :
        link \in a.links}

\* RemoveLinksFromFileAction.perform: the lines kept for the rewrite.
RECURSIVE kept_lines(_, _, _, _)
kept_lines(ls, links, i, kept) ==
    IF i > Len(ls) THEN kept
    ELSE kept_lines(ls, links, i + 1,
            IF strip(ls[i]) \in links THEN kept ELSE Append(kept, ls[i]))

\* A rewrite that keeps the trimmed text of a line instead of the line.
RECURSIVE kept_stripped(_, _, _, _)
kept_stripped(ls, links, i, kept) ==
    IF i > Len(ls) THEN kept
    ELSE kept_stripped(ls, links, i + 1,
            IF strip(ls[i]) \in links THEN kept ELSE Append(kept, strip(ls[i])))

remove_links_stripped(ls, links) == kept_stripped(ls, links, 1, <<>>)

remove_links(ls, links) == kept_lines(ls, links, 1, <<>>)

\* os.path.basename(file).replace(".txt", "")
Stem(file) ==
    CASE file = "a.txt" -> "a"
      [] file = "b.txt" -> "b"

\* cat_file after "for cat_file in output_path.glob('*.txt')": the last file
\* the loop visited.
RECURSIVE last_cat_file(_)
last_cat_file(k) ==
    IF k = 0 THEN None
    ELSE IF outFiles[OutputGlob[k]].exists THEN OutputGlob[k]
    ELSE last_cat_file(k - 1)

\* Step 1 of remove_categorized_lines_from_inputs.
collect_categorized_lines ==
    {strip(line) : line \in
        UNION {Range(outFiles[c].lines) : c \in {d \in OutputNames : outFiles[d].exists}}}

\* --- categorize_websites

Mkdir ==
    /\ pc = "start"
    /\ prog = "cw"
    /\ outDir' = TRUE
    /\ pc' = "load"
    /\ UNCHANGED <<args, inFiles, outFiles, run, category_patterns,
                   LINKS_BY_CATEGORY, fileIdx, pf_locals, categorized_lines,
                   actions, todo, presented, history>>

LoadCategoryPatterns ==
    /\ pc = "load"
    /\ IF load_category_patterns_ok(categories_file)
       THEN /\ category_patterns' = categories_file
            /\ pc' = "scan"
       ELSE /\ pc' = "error"
            /\ UNCHANGED category_patterns
    /\ UNCHANGED <<args, inFiles, outDir, outFiles, run, LINKS_BY_CATEGORY,
                   fileIdx, pf_locals, categorized_lines, actions, todo,
                   presented, history>>

ScanFile ==
    /\ pc = "scan"
    /\ fileIdx <= Len(InputGlob)
    /\ LET file == InputGlob[fileIdx]
           r == scan_lines(file, inFiles[file].lines, 1, actions,
                           LINKS_BY_CATEGORY)
       IN /\ actions' = r.actions
          /\ LINKS_BY_CATEGORY' = r.cache
    /\ fileIdx' = fileIdx + 1
    /\ UNCHANGED <<args, inFiles, outDir, outFiles, pc, run, category_patterns,
                   pf_locals, categorized_lines, todo, presented, history>>

PrintCopyActions ==
    /\ pc = "scan"
    /\ fileIdx > Len(InputGlob)
    /\ presented' = {describe_copy(a) : a \in Range(actions_by_category(actions))}
    /\ pc' = IF Len(actions) > 0 THEN "confirm_copy" ELSE "copied"
    /\ UNCHANGED <<args, inFiles, outDir, outFiles, run, category_patterns,
                   LINKS_BY_CATEGORY, fileIdx, pf_locals, categorized_lines,
                   actions, todo, history>>

ConfirmCopy ==
    /\ pc = "confirm_copy"
    /\ \E answer \in (IF yes THEN {TRUE} ELSE BOOLEAN) :
         IF answer
         THEN /\ todo' = actions_by_category(actions)
              /\ pc' = "perform_copy"
              /\ UNCHANGED declined
         ELSE /\ pc' = "copied"
              /\ declined' =
                   {[src |-> a.src_file_name, line_number |-> a.line_number,
                     link |-> a.link] : a \in Range(actions)}
              /\ UNCHANGED todo
    /\ UNCHANGED <<args, inFiles, outDir, outFiles, run, category_patterns,
                   LINKS_BY_CATEGORY, fileIdx, pf_locals, categorized_lines,
                   actions, presented, moved, run_start, first_in>>

\* LinkCopyAction.perform of the next action.
PerformCopy ==
    /\ pc = "perform_copy"
    /\ LET a == Head(todo)
       IN /\ outFiles' = [outFiles EXCEPT ![a.target_file] =
                             File(write_append(@.lines, a.link))]
          /\ moved' = moved \cup
               {[src |-> a.src_file_name, line_number |-> a.line_number,
                 link |-> a.link]}
    /\ todo' = Tail(todo)
    /\ pc' = IF Tail(todo) = <<>> THEN "copied" ELSE "perform_copy"
    /\ UNCHANGED <<args, inFiles, outDir, run, category_patterns,
                   LINKS_BY_CATEGORY, fileIdx, pf_locals, categorized_lines,
                   actions, presented, declined, run_start, first_in>>

SkipRemoval ==
    /\ pc = "copied"
    /\ ~remove_moved_lines
    /\ pc' = "done"
    /\ UNCHANGED <<args, inFiles, outDir, outFiles, run, category_patterns,
                   LINKS_BY_CATEGORY, fileIdx, pf_locals, categorized_lines,
                   actions, todo, presented, history>>

CollectCategorizedLines ==
    /\ pc = "copied"
    /\ remove_moved_lines
    /\ categorized_lines' = collect_categorized_lines
    /\ actions' = <<>>
    /\ fileIdx' = 1
    /\ pc' = "rscan"
    /\ UNCHANGED <<args, inFiles, outDir, outFiles, run, category_patterns,
                   LINKS_BY_CATEGORY, pf_locals, todo, presented, history>>

\* Step 2 of remove_categorized_lines_from_inputs for one file.
RemovalScanFile ==
    /\ pc = "rscan"
    /\ fileIdx <= Len(InputGlob)
    /\ LET file == InputGlob[fileIdx]
           ls == inFiles[file].lines
           links == {strip(line) : line \in Range(ls)} \cap categorized_lines
       IN actions' =
            IF links # {}
            THEN Append(actions,
                   RemoveLinksFromFileAction(Stem(file),
                       last_cat_file(Len(OutputGlob)), file, Len(ls) - 1, links))
            ELSE actions
    /\ fileIdx' = fileIdx + 1
    /\ UNCHANGED <<args, inFiles, outDir, outFiles, pc, run, category_patterns,
                   LINKS_BY_CATEGORY, pf_locals, categorized_lines, todo,
                   presented, history>>

PrintRemoveActions ==
    /\ pc = "rscan"
    /\ fileIdx > Len(InputGlob)
    /\ presented' = UNION {describe_remove(a) : a \in Range(actions)}
    /\ pc' = IF Len(actions) > 0 THEN "confirm_remove" ELSE "done"
    /\ UNCHANGED <<args, inFiles, outDir, outFiles, run, category_patterns,
                   LINKS_BY_CATEGORY, fileIdx, pf_locals, categorized_lines,
                   actions, todo, history>>

ConfirmRemove ==
    /\ pc = "confirm_remove"
    /\ \E answer \in (IF yes THEN {TRUE} ELSE BOOLEAN) :
         IF answer
         THEN /\ todo' = actions_by_category(actions)
              /\ pc' = "perform_remove"
         ELSE /\ pc' = "done"
              /\ UNCHANGED todo
    /\ UNCHANGED <<args, inFiles, outDir, outFiles, run, category_patterns,
                   LINKS_BY_CATEGORY, fileIdx, pf_locals, categorized_lines,
                   actions, presented, history>>

\* RemoveLinksFromFileAction.perform of the next action; opening a source
\* file that is gone raises FileNotFoundError, which nothing catches.
PerformRemove ==
    /\ pc = "perform_remove"
    /\ LET a == Head(todo)
       IN IF inFiles[a.src_file_name].exists
          THEN /\ inFiles' = [inFiles EXCEPT ![a.src_file_name] =
                                File(writelines(remove_links(@.lines, a.links)))]
               /\ todo' = Tail(todo)
               /\ pc' = IF Tail(todo) = <<>> THEN "done" ELSE "perform_remove"
          ELSE /\ pc' = "crashed"
               /\ UNCHANGED <<inFiles, todo>>
    /\ UNCHANGED <<args, outDir, outFiles, run, category_patterns,
                   LINKS_BY_CATEGORY, fileIdx, pf_locals, categorized_lines,
                   actions, presented, history>>

\* --- process_files

\* What the user types at "Confirm move? (Y/N): ".
PfAnswers == {<<"y">>, <<"Y", " ">>, <<"n">>, <<>>}

lower(s) == [i \in 1..Len(s) |-> Lower(s[i])]

\* input(...).strip().lower() == 'y'
pf_confirmed(answer) == lower(strip(answer)) = <<"y">>

PfMkdir ==
    /\ pc = "start"
    /\ prog = "pf"
    /\ outDir' = TRUE
    /\ fileIdx' = 1
    /\ pc' = "pf_open"
    /\ UNCHANGED <<args, inFiles, outFiles, run, category_patterns,
                   LINKS_BY_CATEGORY, pf_locals, categorized_lines, actions,
                   todo, presented, history>>

PfOpenFile ==
    /\ pc = "pf_open"
    /\ fileIdx <= Len(InputGlob)
    /\ lines' = inFiles[InputGlob[fileIdx]].lines
    /\ new_lines' = <<>>
    /\ lineIdx' = 1
    /\ pc' = "pf_line"
    /\ UNCHANGED <<args, inFiles, outDir, outFiles, run, category_patterns,
                   LINKS_BY_CATEGORY, fileIdx, categorized_lines, actions,
                   todo, presented, history>>

\* One iteration of "for idx, line in enumerate(lines, 1)".
PfLine ==
    /\ pc = "pf_line"
    /\ lineIdx <= Len(lines)
    /\ LET file == InputGlob[fileIdx]
           line == lines[lineIdx]
           category == pf_categorize_line(line)
       IN IF category # None
          THEN \E answer \in PfAnswers :
                 /\ presented' = presented \cup
                      {[src |-> file, line_number |-> lineIdx,
                        text |-> strip(line), dest |-> category,
                        removed |-> FALSE]}
                 /\ IF pf_confirmed(answer)
                    THEN /\ outFiles' = [outFiles EXCEPT ![category] =
                                           File(write_append(@.lines, line))]
                         /\ moved' = moved \cup
                              {[src |-> file, line_number |-> lineIdx,
                                link |-> line]}
                         /\ UNCHANGED <<new_lines, declined>>
                    ELSE /\ new_lines' = Append(new_lines, line)
                         /\ declined' = declined \cup
                              {[src |-> file, line_number |-> lineIdx,
                                link |-> line]}
                         /\ UNCHANGED <<outFiles, moved>>
          ELSE /\ new_lines' = Append(new_lines, line)
               /\ UNCHANGED <<outFiles, presented, declined, moved>>
    /\ lineIdx' = lineIdx + 1
    /\ UNCHANGED <<args, inFiles, outDir, pc, run, category_patterns,
                   LINKS_BY_CATEGORY, fileIdx, lines, categorized_lines,
                   actions, todo, run_start, first_in>>

\* Overwrite the original file with lines that weren't moved.
PfRewrite ==
    /\ pc = "pf_line"
    /\ lineIdx > Len(lines)
    /\ inFiles' = [inFiles EXCEPT ![InputGlob[fileIdx]] = File(writelines(new_lines))]
    /\ fileIdx' = fileIdx + 1
    /\ pc' = "pf_open"
    /\ UNCHANGED <<args, outDir, outFiles, run, category_patterns,
                   LINKS_BY_CATEGORY, pf_locals, categorized_lines, actions,
                   todo, presented, history>>

PfDone ==
    /\ pc = "pf_open"
    /\ fileIdx > Len(InputGlob)
    /\ pc' = "done"
    /\ UNCHANGED <<args, inFiles, outDir, outFiles, run, category_patterns,
                   LINKS_BY_CATEGORY, fileIdx, pf_locals, categorized_lines,
                   actions, todo, presented, history>>

\* --- the program is started again on the same directories

NextRun ==
    /\ pc = "done"
    /\ run < MaxRuns
    /\ run' = run + 1
    /\ pc' = "start"
    /\ category_patterns' = NoPatterns
    /\ LINKS_BY_CATEGORY' = EmptyCache
    /\ fileIdx' = 1
    /\ lineIdx' = 1
    /\ lines' = <<>>
    /\ new_lines' = <<>>
    /\ categorized_lines' = {}
    /\ actions' = <<>>
    /\ todo' = <<>>
    /\ presented' = {}
    /\ declined' = {}
    /\ moved' = {}
    /\ run_start' = [inFiles |-> inFiles, outDir |-> outDir, outFiles |-> outFiles]
    /\ UNCHANGED <<args, inFiles, outDir, outFiles, first_in>>

Next ==
    \/ Mkdir
    \/ LoadCategoryPatterns
    \/ ScanFile
    \/ PrintCopyActions
    \/ ConfirmCopy
    \/ PerformCopy
    \/ SkipRemoval
    \/ CollectCategorizedLines
    \/ RemovalScanFile
    \/ PrintRemoveActions
    \/ ConfirmRemove
    \/ PerformRemove
    \/ PfMkdir
    \/ PfOpenFile
    \/ PfLine
    \/ PfRewrite
    \/ PfDone
    \/ NextRun

Spec == Init /\ [][Next]_vars

\* --- I/O failures

\* Another process deletes a source file between the removal scan and the
\* rewrite.
SourceFileDisappears ==
    /\ pc \in {"confirm_remove", "perform_remove"}
    /\ \E file \in InputNames :
         /\ inFiles[file].exists
         /\ inFiles' = [inFiles EXCEPT ![file] = NoFile]
    /\ UNCHANGED <<args, outDir, outFiles, pc, run, category_patterns,
                   LINKS_BY_CATEGORY, fileIdx, pf_locals, categorized_lines,
                   actions, todo, presented, history>>

NextIO ==
    \/ Next
    \/ SourceFileDisappears

SpecIO == Init /\ [][NextIO]_vars

\* --- the classifier on a wide set of lines and category sets

\* Longest line body (the characters before the terminator).
MaxLineLen == 2

ClassifyChars == {"n", "E", " "}

ClassifyLines ==
    {body \o end : body \in SeqsUpTo(ClassifyChars, MaxLineLen),
                   end \in {<<>>, <<LF>>}} \ {<<>>}

ClassifyPatterns == {<<"N">>, <<"e", ANY>>}

ClassifyCfgs ==
    {JDict(<<Item(keys[1], JList([j \in 1..Len(first) |-> JStr(first[j])])),
             Item(keys[2], JList([j \in 1..Len(second) |-> JStr(second[j])]))>>) :
        keys \in {<<"news", "learn">>, <<"learn", "news">>},
        first \in SeqsUpTo(ClassifyPatterns, 2),
        second \in SeqsUpTo(ClassifyPatterns, 1)}

InitClassify ==
    /\ prog \in {"cw", "pf"}
    /\ yes = (prog = "cw")
    /\ remove_moved_lines \in (IF prog = "cw" THEN BOOLEAN ELSE {FALSE})
    /\ categories_file \in (IF prog = "cw" THEN ClassifyCfgs ELSE {NoPatterns})
    /\ inFiles \in
         {[file \in InputNames |->
              IF file = "a.txt" THEN File(<<line>>) ELSE File(<<>>)] :
            line \in ClassifyLines}
    /\ outDir = FALSE
    /\ outFiles = [c \in OutputNames |-> NoFile]
    /\ Started

SpecClassify == InitClassify /\ [][Next]_vars

\* ------------------------------------------------------------- properties

\* sub is a subsequence of seq: its elements occur in seq in the same order.
RECURSIVE IsSubseq(_, _)
IsSubseq(sub, seq) ==
    IF sub = <<>> THEN TRUE
    ELSE IF seq = <<>> THEN FALSE
    ELSE IF Head(sub) = Head(seq) THEN IsSubseq(Tail(sub), Tail(seq))
    ELSE IsSubseq(sub, Tail(seq))

Count(seq, x) == Cardinality({i \in 1..Len(seq) : seq[i] = x})

\* The trimmed contents of all lines of all category files.
DestinationContents ==
    {strip(line) : line \in UNION {Range(outFiles[c].lines) : c \in OutputNames}}

\* C1: in categorize_websites a line is never appended to <C>.txt when a
\* byte-identical line is already in that file (content from before the run
\* or appended earlier in the run), so no destination file ever holds two
\* byte-identical lines.
C1_NoDuplicateAppend ==
    [][(prog = "cw" /\ pc = "perform_copy") =>
          /\ Head(todo).link \notin Range(outFiles[Head(todo).target_file].lines)
          /\ \A c \in OutputNames : NoDuplicates(outFiles'[c].lines)]_vars

\* C2: a copy proposal that was declined leaves its line in the source file,
\* in place among the lines that stay, and no removal is proposed for that
\* line later in the run.
DeclinedLines(file) ==
    LET ls == run_start.inFiles[file].lines
        idx == {i \in 1..Len(ls) :
                  [src |-> file, line_number |-> i, link |-> ls[i]] \in declined}
    IN SelectSeq([i \in 1..Len(ls) |-> <<i, ls[i]>>], LAMBDA e : e[1] \in idx)

RemovalProposedFor(d) ==
    \E i \in 1..Len(actions) :
        /\ actions[i].kind = "remove"
        /\ actions[i].src_file_name = d.src
        /\ strip(d.link) \in actions[i].links

C2_DeclineSafety ==
    /\ \A file \in InputNames :
         IsSubseq([i \in 1..Len(DeclinedLines(file)) |-> DeclinedLines(file)[i][2]],
                  inFiles[file].lines)
    /\ \A d \in declined : ~RemovalProposedFor(d)

\* C3: the second of two runs of categorize_websites with --yes and
\* --remove-moved-lines creates no copy action and no removal action and
\* leaves every source and destination file as the first run left it.
C3_SecondRunIdempotent ==
    (prog = "cw" /\ yes /\ remove_moved_lines /\ run = 2) =>
        /\ actions = <<>>
        /\ inFiles = run_start.inFiles
        /\ outFiles = run_start.outFiles

\* C4: with --yes and --remove-moved-lines and no category file present
\* before the run, after one run every input line that classifies into C is
\* in <C>.txt verbatim and gone from its source file, and every line that
\* classifies into no category is still in its source file.
C4_MovedAndRemoved ==
    (/\ prog = "cw" /\ yes /\ remove_moved_lines
     /\ run = 1 /\ pc = "done"
     /\ \A c \in OutputNames : ~run_start.outFiles[c].exists) =>
        \A file \in InputNames :
            \A line \in Range(first_in[file].lines) :
                LET category == categorize_line(line, category_patterns)
                IN IF category # None
                   THEN /\ line \in Range(outFiles[category].lines)
                        /\ line \notin Range(inFiles[file].lines)
                   ELSE Count(inFiles[file].lines, line) =
                            Count(first_in[file].lines, line)

\* C5: when the category file is malformed, the run fails before anything is
\* mutated: the input files are as before the run and nothing was created at
\* the output directory path.
C5_MalformedTouchesNothing ==
    pc = "error" =>
        /\ inFiles = run_start.inFiles
        /\ outDir = run_start.outDir
        /\ outFiles = run_start.outFiles

CasePairs ==
    {{"n", "N"}, {"e", "E"}, {"w", "W"}, {"s", "S"}, {"d", "D"}, {"x", "X"},
     {"y", "Y"}}

AtomAccepts(atom, c) ==
    IF atom = ANY THEN c # LF ELSE atom = c \/ {atom, c} \in CasePairs

MatchesSomewhere(pattern, line) ==
    \E i \in 1..Len(line) + 1 :
        /\ i + Len(pattern) - 1 <= Len(line)
        /\ \A k \in 1..Len(pattern) : AtomAccepts(pattern[k], line[i + k - 1])

CategoryMatches(item, line) ==
    \E j \in 1..Len(item.value.elems) :
        MatchesSomewhere(item.value.elems[j].s, line)

FirstMatching(line, items) ==
    LET hits == {i \in 1..Len(items) : CategoryMatches(items[i], line)}
    IN IF hits = {} THEN None
       ELSE items[CHOOSE i \in hits : \A h \in hits : i <= h].key

C7_FirstMatchWins ==
    \A file \in InputNames :
        \A line \in Range(first_in[file].lines) :
            /\ (prog = "cw" /\ load_category_patterns_ok(categories_file)) =>
                 categorize_line(line, categories_file) =
                     FirstMatching(line, categories_file.items)
            /\ pf_categorize_line(line) =
                 FirstMatching(line, CATEGORY_PATTERNS.items)

\* The scan has classified a line that patterns of both categories match,
\* into the first of them.
C7_Witness ==
    /\ prog = "cw"
    /\ pc = "scan"
    /\ fileIdx = 2
    /\ Len(actions) = 1
    /\ LET items == category_patterns.items
           line == first_in["a.txt"].lines[1]
       IN /\ Len(items) = 2
          /\ CategoryMatches(items[1], line)
          /\ CategoryMatches(items[2], line)
          /\ actions[1].category = items[1].key

\* C8: when the rewrite of one source file fails because the file is gone,
\* only that file's mutation is given up: the removals of every other file
\* are applied as in a run without the failure.
C8_FailureIsolated ==
    pc = "crashed" =>
        \A i \in 1..Len(actions) :
            LET a == actions[i]
            IN inFiles[a.src_file_name].exists =>
                 inFiles[a.src_file_name].lines =
                     writelines(remove_links(
                         run_start.inFiles[a.src_file_name].lines, a.links))

\* C9: the removals presented for confirmation are, one to one, the source
\* lines deleted on acceptance: each row names the file, the number of the
\* very line (counted from 1, or from 0 as enumerate does) and its trimmed
\* content, and no line is deleted without a row.
C9_PresentedMatchesDeleted ==
    pc = "confirm_remove" =>
        \E base \in {0, 1} :
            \A i \in 1..Len(actions) :
                LET a == actions[i]
                    old == inFiles[a.src_file_name].lines
                    deleted == {n \in 1..Len(old) : strip(old[n]) \in a.links}
                    rows == {r \in presented : r.src = a.src_file_name}
                IN /\ \A r \in rows :
                        /\ r.line_number + 1 - base \in deleted
                        /\ strip(old[r.line_number + 1 - base]) = r.text
                   /\ \A n \in deleted :
                        \E r \in rows : r.line_number + 1 - base = n
                   /\ Cardinality(rows) = Cardinality(deleted)

\* C10: a line is deleted from a source file only if a destination file
\* holds a line with the same trimmed content when the file is rewritten (in
\* process_files: only if it was appended to its category file earlier in
\* the pass), so every line initially in a source file is afterwards still
\* there or represented in a destination file.
DeletedLines(old, new) == {l \in Range(old) : Count(new, l) < Count(old, l)}

DeletionBacked ==
    \A file \in InputNames :
        \A l \in DeletedLines(inFiles[file].lines, inFiles'[file].lines) :
            IF prog = "pf"
            THEN \E m \in moved : m.src = file /\ m.link = l
            ELSE strip(l) \in DestinationContents

EveryInitialLineKept ==
    \A file \in InputNames :
        \A l \in Range(first_in[file].lines) :
            \/ l \in Range(inFiles[file].lines)
            \/ strip(l) \in DestinationContents

C10_NoLineLost == [][DeletionBacked /\ EveryInitialLineKept']_vars

====
